---- MODULE Spec2Model ----
(***************************************************************************)
(* Model of the EIP-712 signer of eip712-signer.js (class EIP712Signer):   *)
(* generateDeadline, checkFieldOrder, signTypedData, signPermit, of its    *)
(* command line interface main, and of the parts of the ethers v6 library  *)
(* (Wallet.signTypedData, verifyTypedData, getAddress, solidityPacked) the *)
(* class and the debugging scripts call.                                   *)
(*                                                                         *)
(* A JavaScript object is a sequence of [k, v] entries: the sequence order *)
(* is the insertion order that Object.keys and the spread operator see.    *)
(* A keccak hash is modelled by its preimage (an injective hash), a        *)
(* signature by the pair (signing key, signed digest).                     *)
(***************************************************************************)
EXTENDS Integers, Sequences, FiniteSets, TLC

VARIABLES
    wallet,     \* this.wallet: the key given to the constructor
    now,        \* Date.now(), milliseconds
    domain,     \* the caller's domain object (passed by reference)
    types,      \* the caller's types object (passed by reference)
    pc,         \* position of the signTypedData call: idle, await, returned, thrown
    call,       \* arguments of the current call: value, deadline
    frame,      \* locals alive across the await of line 111
    result,     \* the object returned by the last call, <<>> when none
    prev,       \* the previous comparable call: its arguments and outcome
    error,      \* the error the call threw, <<>> when none
    other,      \* a second call made on the instance while the first is pending
    script,     \* the debugging script under way and what it has computed
    cli         \* the command line run of main under way

vars ==
    <<wallet, now, domain, types, pc, call, frame, result, prev, error, other, script, cli>>

----------------------------------------------------------------------------
(* Bounds of the model *)

TickMs == 500
MaxNowMs == 1000
MaxValue == 2

(* Program constants *)

DefaultDurationSeconds == 3600
MsPerSecond == 1000

----------------------------------------------------------------------------
(* JavaScript objects as ordered entry sequences *)

ObjectKeys(obj) == [i \in 1..Len(obj) |-> obj[i].k]

HasOwnProperty(obj, key) == \E i \in 1..Len(obj) : obj[i].k = key

\* obj[key] as a set: empty when the property is undefined
Lookup(obj, key) == {obj[i].v : i \in {j \in 1..Len(obj) : obj[j].k = key}}

Get(obj, key) == CHOOSE v \in Lookup(obj, key) : TRUE

\* obj[key] = v: an existing key keeps its position, a new key is appended
SetProperty(obj, key, v) ==
    IF HasOwnProperty(obj, key)
    THEN [i \in 1..Len(obj) |-> IF obj[i].k = key THEN [k |-> key, v |-> v] ELSE obj[i]]
    ELSE Append(obj, [k |-> key, v |-> v])

Range(s) == {s[i] : i \in 1..Len(s)}

----------------------------------------------------------------------------
(* Inputs the callers of the class supply *)

PrivateKeys == {"keyA", "keyB"}

Values == 1..MaxValue

\* deadline = null (the parameter's default) and explicit values, 0 included
NoDeadline == [given |-> FALSE, v |-> 0]
DeadlineArgs == {NoDeadline, [given |-> TRUE, v |-> 0], [given |-> TRUE, v |-> 2]}

Field(n, t) == [name |-> n, type |-> t]
TypeEntry(n, fields) == [k |-> n, v |-> fields]

VoteFields == <<Field("proposal", "uint256"), Field("support", "bool")>>
VoteTypes == <<TypeEntry("Vote", VoteFields)>>
ActionTypes ==
    <<TypeEntry("Action", <<Field("user", "uint256"), Field("deadline", "uint256")>>)>>
DeadlineFirstTypes ==
    <<TypeEntry("Action", <<Field("deadline", "uint256"), Field("user", "uint256")>>)>>
EmptyTypes == <<>>
DomainFields == <<Field("chainId", "uint256")>>
DomainOnlyTypes == <<TypeEntry("EIP712Domain", DomainFields)>>
DomainAndVoteTypes == <<TypeEntry("EIP712Domain", DomainFields), TypeEntry("Vote", VoteFields)>>

\* types objects with two struct types, one referring to the other
PersonFields == <<Field("wallet", "uint256")>>
MailFields == <<Field("from", "Person"), Field("deadline", "uint256")>>
GroupFields == <<Field("members", "Person[]"), Field("deadline", "uint256")>>
RootFirstTypes == <<TypeEntry("Mail", MailFields), TypeEntry("Person", PersonFields)>>
RootLastTypes == <<TypeEntry("Person", PersonFields), TypeEntry("Mail", MailFields)>>
ArrayRootLastTypes == <<TypeEntry("Person", PersonFields), TypeEntry("Group", GroupFields)>>

NestedTypeSets == {RootFirstTypes, RootLastTypes, ArrayRootLastTypes}

TypeSets ==
    {VoteTypes, ActionTypes, DeadlineFirstTypes, EmptyTypes, DomainOnlyTypes,
     DomainAndVoteTypes}

ChainIds == {1, 5}

\* an address as a caller writes it: lower case, checksummed, or malformed
AddressString(form, address) == [form |-> form, address |-> address]

\* permitData objects handed to signPermit
TokenAddress == <<"address", "token">>
SpenderAddress == <<"address", "spender">>
OwnerAddress == <<"address", "owner">>

PermitDatas ==
    [tokenName : {"Test Token"},
     tokenVersion : {<<>>, <<"2">>},
     chainId : ChainIds,
     verifyingContract : {AddressString("lower", TokenAddress)},
     owner : {<<>>, <<AddressString("lower", OwnerAddress)>>},
     spender : {AddressString(form, SpenderAddress) : form \in {"lower", "checksum", "invalid"}},
     value : Values,
     nonce : {0},
     deadline : DeadlineArgs]

TestDomain == [name |-> "TestDApp", version |-> "1", chainId |-> 1]

TypeNames(ts) == {ts[i].k : i \in 1..Len(ts)}

\* the element type of an array type, the type itself otherwise
BaseType(t) == IF t = "Person[]" THEN "Person" ELSE t

\* TypedDataEncoder: the primary type is the one no other type refers to
EthersPrimaryTypes(ts) ==
    {n \in TypeNames(ts) :
        \A i \in 1..Len(ts) :
            ts[i].k # n => \A f \in Range(ts[i].v) : BaseType(f.type) # n}

\* the fields of the messages tried against a types object: those of the
\* type the message is an instance of (the last type when that is not settled)
MessageFields(ts) ==
    IF ts = <<>> THEN <<>>
    ELSE IF Cardinality(EthersPrimaryTypes(ts)) = 1
         THEN Get(ts, CHOOSE n \in EthersPrimaryTypes(ts) : TRUE)
         ELSE ts[Len(ts)].v

\* message keys tried against a types object: its message fields and one more
KeysFor(ts) ==
    LET names == {f.name : f \in Range(MessageFields(ts))}
    IN  names \cup (IF "deadline" \in names THEN {"extra"} ELSE {"deadline"})

KeySeqs(K) ==
    UNION {{s \in [1..n -> K] : \A i, j \in 1..n : s[i] = s[j] => i = j}
           : n \in 0..Cardinality(K)}

MessagesOver(K) ==
    UNION {{[i \in 1..Len(ks) |-> [k |-> ks[i], v |-> vs[i]]]
            : vs \in [1..Len(ks) -> Values]} : ks \in KeySeqs(K)}

\* a struct-typed field holds an object, an array-typed field an array of them
ValueOfType(ts, t, v) ==
    LET person == <<[k |-> "wallet", v |-> v]>>
    IN  IF t = "Person[]" THEN <<person>>
        ELSE IF t = "Person" THEN person
        ELSE v

TypedMessage(ts, m) ==
    [i \in 1..Len(m) |->
        LET declared == {f \in Range(MessageFields(ts)) : f.name = m[i].k}
        IN  IF declared = {} THEN m[i]
            ELSE [k |-> m[i].k,
                  v |-> ValueOfType(ts, (CHOOSE f \in declared : TRUE).type, m[i].v)]]

Messages ==
    [ts \in TypeSets \cup NestedTypeSets |->
        {TypedMessage(ts, m) : m \in MessagesOver(KeysFor(ts))}]

----------------------------------------------------------------------------
(* ethers v6, as called at lines 16, 111, 114 and 121 *)

\* new ethers.Wallet(privateKey).address
AddressOf(key) == <<"address", key>>

\* an address that belongs to none of the keys
StrangerAddress == <<"address", "none">>

\* getBaseEncoder: one slot per field; <<>> when the encoder throws
EncodeSlot(type, present) ==
    IF type = "bool"
    THEN <<IF present = {} \/ present = {0} THEN 0 ELSE 1>>
    ELSE IF present = {} THEN <<>> ELSE <<CHOOSE v \in present : TRUE>>

RECURSIVE EncodeFields(_, _, _)

\* hashStruct of a nested object: <<hash>>, or <<>> when a field cannot be encoded
EncodeStruct(ts, name, obj) ==
    LET slots == EncodeFields(ts, Get(ts, name), obj)
    IN  IF slots = <<>> THEN <<>> ELSE <<[struct |-> name, slots |-> slots[1]]>>

\* getEncoder: array types, struct types, then the base types
EncodeValue(ts, type, present) ==
    IF BaseType(type) \in TypeNames(ts)
    THEN IF present = {} THEN <<>>
         ELSE LET v == CHOOSE x \in present : TRUE
              IN  IF type = BaseType(type) THEN EncodeStruct(ts, type, v)
                  ELSE LET items == [i \in 1..Len(v) |-> EncodeStruct(ts, BaseType(type), v[i])]
                       IN  IF \E i \in 1..Len(v) : items[i] = <<>> THEN <<>>
                           ELSE <<[array |-> [i \in 1..Len(v) |-> items[i][1]]]>>
    ELSE EncodeSlot(type, present)

EncodeFields(ts, fields, value) ==
    IF fields = <<>> THEN <<<<>>>>
    ELSE LET slot == EncodeValue(ts, Head(fields).type, Lookup(value, Head(fields).name))
             rest == EncodeFields(ts, Tail(fields), value)
         IN  IF slot = <<>> \/ rest = <<>> THEN <<>>
             ELSE <<slot \o rest[1]>>

\* TypedDataEncoder.hash(domain, types, value): <<digest>>, or <<>> when it throws
TypedDataHash(dom, ts, value) ==
    IF Cardinality(EthersPrimaryTypes(ts)) # 1 THEN <<>>
    ELSE LET primary == CHOOSE n \in EthersPrimaryTypes(ts) : TRUE
             fields == Get(ts, primary)
             slots == EncodeFields(ts, fields, value)
         IN  IF slots = <<>> THEN <<>>
             ELSE <<[domain |-> dom, primaryType |-> primary, fields |-> fields,
                     slots |-> slots[1]]>>

\* wallet.signTypedData(domain, types, value): <<signature>>, or <<>> when it throws
WalletSignTypedData(key, dom, ts, value) ==
    LET digest == TypedDataHash(dom, ts, value)
    IN  IF digest = <<>> THEN <<>> ELSE <<[by |-> key, over |-> digest[1]]>>

\* recoverAddress(digest, signature)
RecoverAddress(digest, signature) ==
    IF signature.over = digest THEN AddressOf(signature.by) ELSE StrangerAddress

\* ethers.verifyTypedData(domain, types, value, signature)
VerifyTypedData(dom, ts, value, signature) ==
    LET digest == TypedDataHash(dom, ts, value)
    IN  IF digest = <<>> THEN <<>> ELSE <<RecoverAddress(digest[1], signature)>>

\* ethers.getAddress(s): <<the address, checksummed>>, or <<>> when it throws
getAddress(s) == IF s.form = "invalid" THEN <<>> ELSE <<s.address>>

\* the error getAddress throws
AddressError == [message |-> <<"invalid address">>]

----------------------------------------------------------------------------
(* class EIP712Signer *)

\* generateDeadline(durationSeconds): Math.floor(Date.now() / 1000) + durationSeconds
generateDeadline(nowMs, durationSeconds) == (nowMs \div MsPerSecond) + durationSeconds

\* Object.keys(types).find(key => key !== 'EIP712Domain'): <<name>>, or <<>> for undefined
FindPrimaryType(ts) ==
    LET idx == {i \in 1..Len(ts) : ts[i].k # "EIP712Domain"}
    IN  IF idx = {} THEN <<>>
        ELSE <<ts[CHOOSE i \in idx : \A j \in idx : i <= j].k>>

\* a reordering that walks the message's keys instead of the declared names
ReorderIntoMessageOrder(acc, typeOrder, message) ==
    SelectSeq(message, LAMBDA e : e.k \in Range(typeOrder))

\* typeOrder.forEach(fieldName => { if (message.hasOwnProperty(fieldName)) ... })
RECURSIVE ReorderInto(_, _, _)
ReorderInto(acc, typeOrder, message) ==
    IF typeOrder = <<>> THEN acc
    ELSE ReorderInto(
            IF HasOwnProperty(message, Head(typeOrder))
            THEN SetProperty(acc, Head(typeOrder), Get(message, Head(typeOrder)))
            ELSE acc,
            Tail(typeOrder), message)

checkFieldOrder(ts, message) ==
    LET primaryType == FindPrimaryType(ts)
    IN  IF primaryType = <<>>
        THEN [isOrdered |-> TRUE, typeOrder |-> <<>>, messageOrder |-> <<>>,
              reorderedMessage |-> message, primaryType |-> <<>>]
        ELSE LET fields == Get(ts, primaryType[1])
                 typeOrder == [i \in 1..Len(fields) |-> fields[i].name]
                 messageOrder == ObjectKeys(message)
             IN  [isOrdered |-> typeOrder = messageOrder,
                  typeOrder |-> typeOrder,
                  messageOrder |-> messageOrder,
                  reorderedMessage |-> ReorderInto(<<>>, typeOrder, message),
                  primaryType |-> primaryType]

\* signing goes on with the caller's message, reordered or not
ReconciledValueUnchanged(ts, value) == value

\* lines 80-94: the value signTypedData goes on with
ReconciledValue(ts, value) ==
    LET orderCheck == checkFieldOrder(ts, value)
    IN  IF ~orderCheck.isOrdered THEN orderCheck.reorderedMessage ELSE value

\* !deadline: null, undefined and 0 are falsy
IsFalsy(deadline) == ~deadline.given \/ deadline.v = 0

\* lines 97-99
EffectiveDeadline(deadline, nowMs) ==
    IF IsFalsy(deadline) THEN generateDeadline(nowMs, DefaultDurationSeconds)
    ELSE deadline.v

\* the deadline is written whether or not the type declares the field
MessageWithDeadlineAlways(ts, value, deadline) == SetProperty(value, "deadline", deadline)

\* lines 102-108
MessageWithDeadline(ts, value, deadline) ==
    LET primaryType == FindPrimaryType(ts)
    IN  IF primaryType # <<>> /\ (\E f \in Range(Get(ts, primaryType[1])) : f.name = "deadline")
        THEN SetProperty(value, "deadline", deadline)
        ELSE value

\* the wallet is handed the value as it was before the deadline was written
SignedValueBeforeInjection(value, messageWithDeadline) == value

\* line 111: what is handed to the wallet for signing
SignedValue(value, messageWithDeadline) == messageWithDeadline

\* the underlying error of a failed wallet.signTypedData / verifyTypedData
TypedDataError(dom, ts, value) ==
    IF EthersPrimaryTypes(ts) = {} THEN "missing primary type"
    ELSE IF Cardinality(EthersPrimaryTypes(ts)) > 1 THEN "ambiguous primary types"
    ELSE "invalid value"

FailedPrefix == "Failed to sign typed data: "

\* the error leaves signTypedData as it was thrown
RethrowError(message) == [message |-> <<message>>]

\* line 124: new Error(`Failed to sign typed data: ${error.message}`)
WrapError(message) == [message |-> <<FailedPrefix, message>>]

\* the deadline is written into the caller's object, or into the reordered one
MessageObjectAliased(orderCheck) == IF orderCheck.isOrdered THEN "value" ELSE "reorderedMessage"

\* line 102: { ...value } is an object of its own
MessageObject(orderCheck) == "messageWithDeadline"

\* the caller's message object once lines 102-108 have run
ValueAfter(object, value, messageWithDeadline) ==
    IF object = "value" THEN messageWithDeadline ELSE value

\* lines 72-111: the locals of a signTypedData call when it reaches the await;
\* line 111 is the one call of wallet.signTypedData, the catch block only throws
SignTypedDataFrame(key, dom, ts, value, deadlineArg, nowMs) ==
    LET orderCheck == checkFieldOrder(ts, value)
        reconciled == ReconciledValue(ts, value)
        deadline == EffectiveDeadline(deadlineArg, nowMs)
        messageWithDeadline == MessageWithDeadline(ts, reconciled, deadline)
        object == MessageObject(orderCheck)
        signed == SignedValue(reconciled, messageWithDeadline)
        signature == WalletSignTypedData(key, dom, ts, signed)
    IN  [orderCheck |-> orderCheck,
         messageWithDeadline |-> messageWithDeadline,
         object |-> object,
         valueAfter |-> ValueAfter(object, value, messageWithDeadline),
         deadline |-> deadline,
         signature |-> signature,
         signCalls |-> 1,
         cause |-> IF signature = <<>> THEN <<TypedDataError(dom, ts, signed)>> ELSE <<>>,
         domain |-> dom,
         types |-> ts]

\* lines 155-161
PermitTypes ==
    <<TypeEntry("Permit",
        <<Field("owner", "address"), Field("spender", "address"),
          Field("value", "uint256"), Field("nonce", "uint256"),
          Field("deadline", "uint256")>>)>>

\* line 136: tokenVersion = '1'
DefaultTokenVersion == "1"

\* lines 146-151; <<>> when getAddress throws
PermitDomain(p) ==
    LET contract == getAddress(p.verifyingContract)
    IN  IF contract = <<>> THEN <<>>
        ELSE <<[name |-> p.tokenName,
                version |-> IF p.tokenVersion = <<>> THEN DefaultTokenVersion
                            ELSE p.tokenVersion[1],
                chainId |-> p.chainId,
                verifyingContract |-> contract[1]]>>

\* line 168: deadline || this.generateDeadline()
PermitDeadline(deadline, nowMs) ==
    IF IsFalsy(deadline) THEN generateDeadline(nowMs, DefaultDurationSeconds)
    ELSE deadline.v

\* the permit is always made out in the name of the held key
PermitMessageOwnerIsSigner(key, p, nowMs) ==
    LET spender == getAddress(p.spender)
    IN  IF spender = <<>> THEN <<>>
        ELSE <<<<[k |-> "owner", v |-> AddressOf(key)],
                 [k |-> "spender", v |-> spender[1]],
                 [k |-> "value", v |-> p.value],
                 [k |-> "nonce", v |-> p.nonce],
                 [k |-> "deadline", v |-> PermitDeadline(p.deadline, nowMs)]>>>>

\* lines 163-169; <<>> when getAddress throws
PermitMessage(key, p, nowMs) ==
    LET owner == IF p.owner = <<>> THEN <<AddressOf(key)>> ELSE getAddress(p.owner[1])
        spender == getAddress(p.spender)
    IN  IF owner = <<>> \/ spender = <<>> THEN <<>>
        ELSE <<<<[k |-> "owner", v |-> owner[1]],
                 [k |-> "spender", v |-> spender[1]],
                 [k |-> "value", v |-> p.value],
                 [k |-> "nonce", v |-> p.nonce],
                 [k |-> "deadline", v |-> PermitDeadline(p.deadline, nowMs)]>>>>

\* line 171: the deadline argument handed on to signTypedData
PermitDeadlineArg(message) == [given |-> TRUE, v |-> Get(message, "deadline")]

\* the owner named in the message is reported as the signer
ResultObjectOwnerAsSigner(signature, deadline, recoveredAddress, messageWithDeadline, key) ==
    [signature |-> signature, deadline |-> deadline,
     recoveredAddress |-> recoveredAddress,
     messageWithDeadline |-> messageWithDeadline,
     signer |-> IF HasOwnProperty(messageWithDeadline, "owner")
                THEN Get(messageWithDeadline, "owner") ELSE AddressOf(key)]

\* lines 116-122
ResultObject(signature, deadline, recoveredAddress, messageWithDeadline, key) ==
    [signature |-> signature, deadline |-> deadline,
     recoveredAddress |-> recoveredAddress,
     messageWithDeadline |-> messageWithDeadline, signer |-> AddressOf(key)]

----------------------------------------------------------------------------
(* The command line interface: main *)

\* parseInt(text): <<n>>, or <<>> for NaN
ParseInt(text) ==
    CASE text = "0" -> <<0>>
      [] text = "1" -> <<1>>
      [] text = "2" -> <<2>>
      [] text = "5" -> <<5>>
      [] text = "60" -> <<60>>
      [] OTHER -> <<>>

\* parseInt(options.x): an absent option is undefined and parses to NaN
ParseIntOption(option) == IF option = <<>> THEN <<>> ELSE ParseInt(option[1])

\* parseInt(options.x) || fallback: NaN and 0 are falsy
OrDefault(parsed, fallback) ==
    IF parsed = <<>> \/ parsed[1] = 0 THEN fallback ELSE parsed[1]

\* --custom-json '{"types": ..., "message": ...}'
CustomJsons == {[types |-> ActionTypes, message |-> <<[k |-> "user", v |-> 1]>>]}

\* the command lines tried: args[0] and the options after it
CliArgs ==
    [prefixed : BOOLEAN,
     permit : BOOLEAN,
     custom_json : {<<>>} \cup {<<j>> : j \in CustomJsons},
     chain_id : {<<>>, <<"0">>, <<"5">>},
     verifying_contract : {<<>>, <<AddressString("checksum", TokenAddress)>>},
     spender : {<<>>, <<AddressString("checksum", SpenderAddress)>>},
     value : {<<>>, <<"1">>},
     nonce : {<<>>, <<"1">>},
     deadline : {<<>>, <<"0">>, <<"2">>},
     deadline_duration : {<<>>, <<"60">>}]

\* line 260 and line 280: options.deadline ? parseInt(options.deadline) : ...
CliDeadline(o) ==
    IF o.deadline = <<>> THEN NoDeadline
    ELSE [given |-> TRUE, v |-> ParseInt(o.deadline[1])[1]]

\* lines 251-261
CliPermitData(o) ==
    [tokenName |-> "Token",
     tokenVersion |-> <<"1">>,
     chainId |-> OrDefault(ParseIntOption(o.chain_id), 1),
     verifyingContract |-> o.verifying_contract[1],
     owner |-> <<>>,
     spender |-> o.spender[1],
     value |-> o.value[1],
     nonce |-> OrDefault(ParseIntOption(o.nonce), 0),
     deadline |-> CliDeadline(o)]

\* ethers.ZeroAddress
ZeroAddress == <<"address", "zero">>

\* lines 272-277
CliCustomDomain(o) ==
    [name |-> "Custom",
     version |-> "1",
     chainId |-> OrDefault(ParseIntOption(o.chain_id), 1),
     verifyingContract |-> IF o.verifying_contract = <<>> THEN ZeroAddress
                           ELSE getAddress(o.verifying_contract[1])[1]]

\* lines 279-280: the deadline handed to signTypedData in --custom-json mode
CliCustomDeadline(o, nowMs) ==
    LET deadlineDuration == IF o.deadline_duration = <<>> THEN DefaultDurationSeconds
                            ELSE ParseInt(o.deadline_duration[1])[1]
    IN  IF o.deadline = <<>> THEN generateDeadline(nowMs, deadlineDuration)
        ELSE ParseInt(o.deadline[1])[1]

\* lines 192-197: an option the help text calls required for permit is missing
PermitOptionsMissingWithNonce(o) ==
    o.verifying_contract = <<>> \/ o.spender = <<>> \/ o.value = <<>> \/ o.nonce = <<>>

\* line 263
PermitOptionsMissing(o) ==
    o.verifying_contract = <<>> \/ o.spender = <<>> \/ o.value = <<>>

\* the run has ended with process.exit(code) before anything was signed
CliExited(o, nowMs, code) ==
    [pc |-> "exited", args |-> o, now |-> nowMs, frame |-> <<>>, printed |-> <<>>,
     exit |-> <<code>>]

\* the run has reached signTypedData with the locals f
CliSigning(o, nowMs, f) ==
    IF f.signature = <<>> THEN CliExited(o, nowMs, 1)
    ELSE [pc |-> "await", args |-> o, now |-> nowMs, frame |-> <<f>>,
          printed |-> <<>>, exit |-> <<>>]

\* main, lines 222-286, up to the await of the signing call
CliMain(key, o, nowMs) ==
    IF ~o.prefixed THEN CliExited(o, nowMs, 1)
    ELSE IF o.permit
    THEN IF PermitOptionsMissing(o) THEN CliExited(o, nowMs, 1)
         ELSE LET permitData == CliPermitData(o)
                  dom == PermitDomain(permitData)
                  message == PermitMessage(key, permitData, nowMs)
              IN  IF dom = <<>> \/ message = <<>> THEN CliExited(o, nowMs, 1)
                  ELSE CliSigning(o, nowMs,
                          SignTypedDataFrame(key, dom[1], PermitTypes, message[1],
                                             PermitDeadlineArg(message[1]), nowMs))
    ELSE IF o.custom_json # <<>>
    THEN LET customData == o.custom_json[1]
         IN  CliSigning(o, nowMs,
                SignTypedDataFrame(key, CliCustomDomain(o), customData.types,
                                   customData.message,
                                   [given |-> TRUE, v |-> CliCustomDeadline(o, nowMs)],
                                   nowMs))
    ELSE CliExited(o, nowMs, 1)

\* lines 289-296: what main prints
CliOutput(returned, nowMs) ==
    [signature |-> returned.signature, deadline |-> returned.deadline,
     signer |-> returned.signer, recoveredAddress |-> returned.recoveredAddress,
     messageWithDeadline |-> returned.messageWithDeadline, timestamp |-> nowMs]

----------------------------------------------------------------------------
(* The debugging scripts: showOurEIP712Breakdown, debugEIP712Construction and *)
(* recoverAddressTest.  A byte string is a sequence of chunks, each with the  *)
(* Solidity type it was packed as, its value and its width in bytes.          *)

ScriptNames == {"showOurEIP712Breakdown", "debugEIP712Construction", "recoverAddressTest"}

\* types.Order, the same in the three scripts
OrderFields ==
    <<Field("sellToken", "address"), Field("buyToken", "address"),
      Field("receiver", "address"), Field("sellAmount", "uint256"),
      Field("buyAmount", "uint256"), Field("validTo", "uint32"),
      Field("appData", "bytes32"), Field("feeAmount", "uint256"),
      Field("kind", "bytes32"), Field("partiallyFillable", "bytes1"),
      Field("sellTokenBalance", "bytes32"), Field("buyTokenBalance", "bytes32")>>

\* 'Order(address sellToken,...,bytes32 kind,bytes1 partiallyFillable,...)'
OrderTypeStringBytes == [name |-> "Order", members |-> OrderFields]

\* 'Order(address sellToken,...,string kind,bool partiallyFillable,...)'
OrderTypeStringStrings ==
    [name |-> "Order",
     members |->
        <<Field("sellToken", "address"), Field("buyToken", "address"),
          Field("receiver", "address"), Field("sellAmount", "uint256"),
          Field("buyAmount", "uint256"), Field("validTo", "uint32"),
          Field("appData", "bytes32"), Field("feeAmount", "uint256"),
          Field("kind", "string"), Field("partiallyFillable", "bool"),
          Field("sellTokenBalance", "string"), Field("buyTokenBalance", "string")>>]

\* the type string literal each script hashes
OrderTypeString(name) ==
    IF name = "debugEIP712Construction" THEN OrderTypeStringStrings
    ELSE OrderTypeStringBytes

\* the EIP-712 encodeType of a struct: name '(' type ' ' name ',' ... ')'
EncodeType(name, fields) == [name |-> name, members |-> fields]

DomainTypeString ==
    [name |-> "EIP712Domain",
     members |-> <<Field("name", "string"), Field("version", "string"),
                   Field("chainId", "uint256"), Field("verifyingContract", "address")>>]

\* the Solidity types each script packs the struct hash preimage with
StructPackTypes(name) ==
    <<"bytes32", "address", "address", "address", "uint256", "uint256", "uint32",
      "bytes32", "uint256", "bytes32",
      IF name = "debugEIP712Construction" THEN "bool" ELSE "bytes1",
      "bytes32", "bytes32">>

\* ethers.solidityPacked: the width of one value, non-standard packed mode
PackedWidth(type, v) ==
    IF type = "string" THEN Len(v)
    ELSE IF type = "address" THEN 20
    ELSE IF type = "uint32" THEN 4
    ELSE IF type \in {"bytes1", "bool"} THEN 1
    ELSE 32

solidityPacked(ts, vs) ==
    [i \in 1..Len(ts) |-> [type |-> ts[i], v |-> vs[i], width |-> PackedWidth(ts[i], vs[i])]]

RECURSIVE ByteLength(_)
ByteLength(bytes) ==
    IF bytes = <<>> THEN 0 ELSE Head(bytes).width + ByteLength(Tail(bytes))

\* a hash is its preimage
keccak256(bytes) == [keccak |-> bytes]

\* ethers.toUtf8Bytes(text)
toUtf8Bytes(text) == [utf8 |-> text]

\* '\x19\x01'
Prefix1901 == <<25, 1>>

\* the two bytes of the prefix are left out
FinalPackNoPrefix(domainSeparator, structHash) ==
    solidityPacked(<<"bytes32", "bytes32">>, <<domainSeparator, structHash>>)

\* solidityPacked(['string', 'bytes32', 'bytes32'], ['\x19\x01', domainSeparator, structHash])
FinalPack(domainSeparator, structHash) ==
    solidityPacked(<<"string", "bytes32", "bytes32">>,
                   <<Prefix1901, domainSeparator, structHash>>)

\* the message value of a field, hashed first where the script hashes it
PackedFieldValue(name, field) ==
    IF name = "debugEIP712Construction"
       /\ field \in {"kind", "sellTokenBalance", "buyTokenBalance"}
    THEN keccak256(toUtf8Bytes(<<"message", field>>))
    ELSE <<"message", field>>

\* the statements of a script: the domain separator, the struct hash, the digest
ScriptSteps == <<"domainSeparator", "structHash", "done">>

\* what a script has computed when it has run
ScriptRun(name) ==
    LET domainPreimage ==
            solidityPacked(
                <<"bytes32", "bytes32", "bytes32", "uint256", "address">>,
                <<keccak256(toUtf8Bytes(DomainTypeString)),
                  keccak256(toUtf8Bytes("Gnosis Protocol")),
                  keccak256(toUtf8Bytes("v2")),
                  1,
                  "0x9008D19f58AAbD9eD0D60971565AA8510560ab41">>)
        orderTypeHash == keccak256(toUtf8Bytes(OrderTypeString(name)))
        structPreimage ==
            solidityPacked(
                StructPackTypes(name),
                <<orderTypeHash>> \o
                [i \in 1..Len(OrderFields) |-> PackedFieldValue(name, OrderFields[i].name)])
        digestPreimage == FinalPack(keccak256(domainPreimage), keccak256(structPreimage))
    IN  [name |-> name,
         pc |-> "done",
         types |-> <<TypeEntry("Order", OrderFields)>>,
         orderTypeString |-> OrderTypeString(name),
         domainPreimage |-> domainPreimage,
         structPreimage |-> structPreimage,
         digestPreimage |-> digestPreimage,
         digest |-> keccak256(digestPreimage)]

----------------------------------------------------------------------------
(* Steps *)

NoCall ==
    [value |-> <<>>, deadline |-> NoDeadline, domain |-> TestDomain, now |-> 0,
     permit |-> <<>>]

NoOther == [pc |-> "idle", call |-> NoCall, frame |-> <<>>, result |-> <<>>, error |-> <<>>]

NoScript == [name |-> "none", pc |-> "idle"]

NoCli == [pc |-> "idle"]

\* the objects that hold the entries of obj in some key order
Reorderings(obj) ==
    {[i \in 1..Len(obj) |-> obj[p[i]]] : p \in Permutations(1..Len(obj))}

\* A completed call is followed at once only by a call that carries the same
\* key-value pairs, in any key order, and the same deadline argument; the two
\* are then compared.  Any other call starts after Forget.
NextValues ==
    IF pc = "idle" THEN Messages[types]
    ELSE IF call.permit = <<>> /\ call.domain = domain THEN Reorderings(call.value) ELSE {}

NextDeadlineArgs == IF pc = "idle" THEN DeadlineArgs ELSE {call.deadline}

Init ==
    /\ wallet \in PrivateKeys
    /\ now = 0
    /\ domain = TestDomain
    /\ types \in TypeSets
    /\ pc = "idle"
    /\ call = NoCall
    /\ frame = <<>>
    /\ result = <<>>
    /\ prev = <<>>
    /\ error = <<>>
    /\ other = NoOther
    /\ script = NoScript
    /\ cli = NoCli

\* the wall clock advances
Tick ==
    /\ now + TickMs <= MaxNowMs
    /\ now' = now + TickMs
    /\ UNCHANGED <<wallet, domain, types, pc, call, frame, result, prev, error, other, script, cli>>

\* signTypedData(domain, types, value, deadline) up to the await of line 111
SignTypedDataCall(value, deadlineArg) ==
    /\ pc \in {"idle", "returned", "thrown"}
    /\ LET f == SignTypedDataFrame(wallet, domain, types, value, deadlineArg, now)
           started == [value |-> value, deadline |-> deadlineArg, domain |-> domain,
                       now |-> now, permit |-> <<>>]
       IN  /\ call' = started
           /\ prev' = IF pc = "idle" THEN <<>>
                      ELSE <<[value |-> call.value, deadline |-> call.deadline,
                              domain |-> call.domain, pc |-> pc, result |-> result]>>
           /\ result' = <<>>
           /\ frame' = <<f>>
           /\ pc' = IF f.signature = <<>> THEN "thrown" ELSE "await"
           /\ error' = IF f.signature = <<>> THEN <<WrapError(f.cause[1])>> ELSE <<>>
    /\ UNCHANGED <<wallet, now, domain, types, other, script, cli>>

\* the locals of a call are kept on the instance: the latest call's are read
ResumeFrameShared(own, latest) == latest

\* lines 102-114: the locals a call reads after its await are its own
ResumeFrame(own, latest) == own

\* the locals of the call started last on the instance
LatestFrame == IF other.frame # <<>> THEN other.frame[1] ELSE frame[1]

\* the domain and types objects a pending call holds: the caller's for
\* signTypedData, the ones built at lines 146-161 for signPermit
HeldDomain(c, f) == IF c.permit = <<>> THEN domain ELSE f.domain
HeldTypes(c, f) == IF c.permit = <<>> THEN types ELSE f.types

\* lines 114-125: <<result>>, or <<>> when verification throws
ResumeResult(key, dom, ts, f) ==
    LET recovered == VerifyTypedData(dom, ts, f.messageWithDeadline, f.signature[1])
    IN  IF recovered = <<>> THEN <<>>
        ELSE <<ResultObject(f.signature[1], f.deadline, recovered[1],
                            f.messageWithDeadline, key)>>

\* signTypedData after the await: lines 114-125
SignTypedDataResume ==
    /\ pc = "await"
    /\ LET f == ResumeFrame(frame[1], LatestFrame)
           dom == HeldDomain(call, f)
           ts == HeldTypes(call, f)
           returned == ResumeResult(wallet, dom, ts, f)
       IN  /\ result' = returned
           /\ pc' = IF returned = <<>> THEN "thrown" ELSE "returned"
           /\ error' = IF returned = <<>>
                       THEN <<WrapError(TypedDataError(dom, ts, f.messageWithDeadline))>>
                       ELSE <<>>
    /\ UNCHANGED <<wallet, now, domain, types, call, frame, prev, other, script, cli>>

\* the caller lets go of the outcome of a completed call
Forget ==
    /\ pc \in {"returned", "thrown"}
    /\ other.pc # "await"
    /\ pc' = "idle"
    /\ call' = NoCall
    /\ frame' = <<>>
    /\ result' = <<>>
    /\ prev' = <<>>
    /\ error' = <<>>
    /\ other' = NoOther
    /\ UNCHANGED <<wallet, now, domain, types, script, cli>>

\* the clock readings of a later line of the same synchronous run
LaterReadings == {t \in {now, now + TickMs} : t <= MaxNowMs}

\* signPermit(permitData), lines 133-171, up to the await inside signTypedData;
\* the clock may advance between line 168 and the signTypedData call of line 171
SignPermitCall(permitData, later) ==
    /\ pc = "idle"
    /\ LET dom == PermitDomain(permitData)
           message == PermitMessage(wallet, permitData, now)
       IN  IF dom = <<>> \/ message = <<>>
           THEN /\ call' = [value |-> <<>>, deadline |-> permitData.deadline,
                            domain |-> TestDomain, now |-> now, permit |-> <<permitData>>]
                /\ frame' = <<>>
                /\ pc' = "thrown"
                /\ error' = <<AddressError>>
           ELSE LET deadlineArg == PermitDeadlineArg(message[1])
                    f == SignTypedDataFrame(wallet, dom[1], PermitTypes, message[1],
                                            deadlineArg, later)
                IN  /\ call' = [value |-> message[1], deadline |-> deadlineArg,
                                 domain |-> dom[1], now |-> now,
                                 permit |-> <<permitData>>]
                    /\ frame' = <<f>>
                    /\ pc' = IF f.signature = <<>> THEN "thrown" ELSE "await"
                    /\ error' = IF f.signature = <<>> THEN <<WrapError(f.cause[1])>>
                                ELSE <<>>
    /\ now' = later
    /\ result' = <<>>
    /\ prev' = <<>>
    /\ UNCHANGED <<wallet, domain, types, other, script, cli>>

\* the messages of a second call: the first call's object, or its entries in
\* the opposite key order
OtherValues ==
    {call.value, [i \in 1..Len(call.value) |-> call.value[Len(call.value) + 1 - i]]}

\* a second signTypedData call starts while the first one is pending
OtherSignTypedDataCall(value, deadlineArg) ==
    /\ pc = "await"
    /\ call.permit = <<>>
    /\ other.pc = "idle"
    /\ LET f == SignTypedDataFrame(wallet, domain, types, value, deadlineArg, now)
       IN  other' = [pc |-> IF f.signature = <<>> THEN "thrown" ELSE "await",
                     call |-> [value |-> value, deadline |-> deadlineArg,
                               domain |-> domain, now |-> now, permit |-> <<>>],
                     frame |-> <<f>>,
                     result |-> <<>>,
                     error |-> IF f.signature = <<>> THEN <<WrapError(f.cause[1])>>
                               ELSE <<>>]
    /\ UNCHANGED <<wallet, now, domain, types, pc, call, frame, result, prev, error, script, cli>>

\* a second signPermit call, with the same permitData, starts while the first
\* one is pending
OtherSignPermitCall ==
    /\ pc = "await"
    /\ call.permit # <<>>
    /\ other.pc = "idle"
    /\ LET permitData == call.permit[1]
           dom == PermitDomain(permitData)[1]
           message == PermitMessage(wallet, permitData, now)[1]
           deadlineArg == PermitDeadlineArg(message)
           f == SignTypedDataFrame(wallet, dom, PermitTypes, message, deadlineArg, now)
       IN  other' = [pc |-> IF f.signature = <<>> THEN "thrown" ELSE "await",
                     call |-> [value |-> message, deadline |-> deadlineArg,
                               domain |-> dom, now |-> now, permit |-> <<permitData>>],
                     frame |-> <<f>>,
                     result |-> <<>>,
                     error |-> IF f.signature = <<>> THEN <<WrapError(f.cause[1])>>
                               ELSE <<>>]
    /\ UNCHANGED <<wallet, now, domain, types, pc, call, frame, result, prev, error, script, cli>>

\* the second call after its await: lines 114-125
OtherResume ==
    /\ other.pc = "await"
    /\ LET f == ResumeFrame(other.frame[1], LatestFrame)
           dom == HeldDomain(other.call, f)
           ts == HeldTypes(other.call, f)
           returned == ResumeResult(wallet, dom, ts, f)
       IN  other' = [other EXCEPT
                        !.pc = IF returned = <<>> THEN "thrown" ELSE "returned",
                        !.result = returned,
                        !.error = IF returned = <<>>
                                  THEN <<WrapError(TypedDataError(dom, ts,
                                                                  f.messageWithDeadline))>>
                                  ELSE <<>>]
    /\ UNCHANGED <<wallet, now, domain, types, pc, call, frame, result, prev, error, script, cli>>

\* the caller changes the domain object it passed while the promise is pending
CallerMutatesDomain ==
    /\ pc = "await"
    /\ domain = TestDomain
    /\ \E c \in ChainIds \ {domain.chainId} : domain' = [domain EXCEPT !.chainId = c]
    /\ UNCHANGED <<wallet, now, types, pc, call, frame, result, prev, error, other, script, cli>>

Next ==
    \/ Tick
    \/ \E value \in NextValues, deadlineArg \in NextDeadlineArgs :
          SignTypedDataCall(value, deadlineArg)
    \/ SignTypedDataResume
    \/ Forget

Spec == Init /\ [][Next]_vars

\* as Spec, with callers that change the domain object during the await
NextAsync == Next \/ CallerMutatesDomain

SpecAsync == Init /\ [][NextAsync]_vars

\* as Spec, for types objects whose struct types refer to one another
InitNested ==
    /\ wallet \in PrivateKeys
    /\ now = 0
    /\ domain = TestDomain
    /\ types \in NestedTypeSets
    /\ pc = "idle"
    /\ call = NoCall
    /\ frame = <<>>
    /\ result = <<>>
    /\ prev = <<>>
    /\ error = <<>>
    /\ other = NoOther
    /\ script = NoScript
    /\ cli = NoCli

SpecNested == InitNested /\ [][Next]_vars

\* signTypedData and signPermit calls on one instance
InitPermit ==
    /\ wallet \in PrivateKeys
    /\ now = 0
    /\ domain = TestDomain
    /\ types \in {VoteTypes, ActionTypes}
    /\ pc = "idle"
    /\ call = NoCall
    /\ frame = <<>>
    /\ result = <<>>
    /\ prev = <<>>
    /\ error = <<>>
    /\ other = NoOther
    /\ script = NoScript
    /\ cli = NoCli

NextPermit ==
    \/ Next
    \/ \E permitData \in PermitDatas, later \in LaterReadings :
          SignPermitCall(permitData, later)

SpecPermit == InitPermit /\ [][NextPermit]_vars

\* what a script has computed when it has reached a step: later values are
\* not there yet
ScriptAt(name, step) ==
    LET run == ScriptRun(name)
    IN  [run EXCEPT
            !.pc = step,
            !.structPreimage = IF step = "domainSeparator" THEN <<>> ELSE @,
            !.digestPreimage = IF step = "done" THEN @ ELSE <<>>,
            !.digest = IF step = "done" THEN @ ELSE <<>>]

\* one of the debugging scripts is started and computes its domain separator
RunScript(name) ==
    /\ script = NoScript
    /\ script' = ScriptAt(name, ScriptSteps[1])
    /\ UNCHANGED <<wallet, now, domain, types, pc, call, frame, result, prev, error, other, cli>>

\* the script computes its next value
ScriptStep ==
    /\ script # NoScript
    /\ script.pc # "done"
    /\ \E i \in 1..(Len(ScriptSteps) - 1) :
          /\ script.pc = ScriptSteps[i]
          /\ script' = ScriptAt(script.name, ScriptSteps[i + 1])
    /\ UNCHANGED <<wallet, now, domain, types, pc, call, frame, result, prev, error, other, cli>>

\* the script's process ends
ScriptExit ==
    /\ script.pc = "done"
    /\ script' = NoScript
    /\ UNCHANGED <<wallet, now, domain, types, pc, call, frame, result, prev, error, other, cli>>

\* node eip712-signer.js <private_key> [options], up to the await
CliStart(o) ==
    /\ cli = NoCli
    /\ cli' = CliMain(wallet, o, now)
    /\ UNCHANGED <<wallet, now, domain, types, pc, call, frame, result, prev, error, other, script>>

\* main after the await: lines 289-300
CliResume ==
    /\ cli.pc = "await"
    /\ LET f == cli.frame[1]
           returned == ResumeResult(wallet, f.domain, f.types, f)
       IN  cli' = IF returned = <<>>
                  THEN [cli EXCEPT !.pc = "exited", !.exit = <<1>>]
                  ELSE [cli EXCEPT !.pc = "exited", !.exit = <<0>>,
                                   !.printed = <<CliOutput(returned[1], now)>>]
    /\ UNCHANGED <<wallet, now, domain, types, pc, call, frame, result, prev, error, other, script>>

\* the process is gone
CliEnd ==
    /\ cli.pc = "exited"
    /\ cli' = NoCli
    /\ UNCHANGED <<wallet, now, domain, types, pc, call, frame, result, prev, error, other, script>>

NextCli ==
    \/ Tick
    \/ \E o \in CliArgs : CliStart(o)
    \/ CliResume
    \/ CliEnd

InitCli ==
    /\ wallet \in PrivateKeys
    /\ now = 0
    /\ domain = TestDomain
    /\ types = VoteTypes
    /\ pc = "idle"
    /\ call = NoCall
    /\ frame = <<>>
    /\ result = <<>>
    /\ prev = <<>>
    /\ error = <<>>
    /\ other = NoOther
    /\ script = NoScript
    /\ cli = NoCli

SpecCli == InitCli /\ [][NextCli]_vars

NextScripts ==
    \/ Tick
    \/ \E name \in ScriptNames : RunScript(name)
    \/ ScriptStep
    \/ ScriptExit

SpecScripts == Init /\ [][NextScripts]_vars

\* two calls on one instance, interleaved at their awaits
InitConcurrent ==
    /\ wallet \in PrivateKeys
    /\ now = 0
    /\ domain = TestDomain
    /\ types = ActionTypes
    /\ pc = "idle"
    /\ call = NoCall
    /\ frame = <<>>
    /\ result = <<>>
    /\ prev = <<>>
    /\ error = <<>>
    /\ other = NoOther
    /\ script = NoScript
    /\ cli = NoCli

NextConcurrent ==
    \/ Tick
    \/ \E value \in Messages[types], deadlineArg \in DeadlineArgs :
          pc = "idle" /\ SignTypedDataCall(value, deadlineArg)
    \/ \E permitData \in PermitDatas, later \in LaterReadings :
          SignPermitCall(permitData, later)
    \/ SignTypedDataResume
    \/ \E value \in OtherValues, deadlineArg \in DeadlineArgs :
          OtherSignTypedDataCall(value, deadlineArg)
    \/ OtherSignPermitCall
    \/ OtherResume
    \/ Forget

SpecConcurrent == InitConcurrent /\ [][NextConcurrent]_vars

----------------------------------------------------------------------------
(* Properties *)

HasPrimaryType == FindPrimaryType(types) # <<>>

\* declared field names of the primary type, in declared order
PrimaryFieldNames ==
    LET fields == Get(types, FindPrimaryType(types)[1])
    IN  [i \in 1..Len(fields) |-> fields[i].name]

DeclaresDeadline == HasPrimaryType /\ "deadline" \in Range(PrimaryFieldNames)

Returned == pc = "returned"

C2_MismatchIsReported ==
    ~(Returned /\ result[1].recoveredAddress # result[1].signer)

\* C3: two calls whose messages hold the same key-value pairs in any key order,
\* with the same domain, types and explicit deadline, sign the same message
\* (key order included) and produce the same signature.
C3_FieldOrderInvariance ==
    (/\ Returned
     /\ prev # <<>>
     /\ ObjectKeys(prev[1].value) # ObjectKeys(call.value)
     /\ HasPrimaryType
     /\ call.deadline.given) =>
        /\ prev[1].pc = "returned"
        /\ prev[1].result[1].messageWithDeadline = result[1].messageWithDeadline
        /\ prev[1].result[1].signature = result[1].signature

\* C4: when the primary type declares deadline and the message has none, the
\* signed deadline is the deadline argument for every provided value, 0
\* included, and floor(now / 1000) + 3600 without one; the returned deadline
\* is the signed one.
C4_DeadlineInjection ==
    (/\ pc \in {"await", "returned"}
     /\ DeclaresDeadline
     /\ ~HasOwnProperty(call.value, "deadline")) =>
        /\ Lookup(frame[1].messageWithDeadline, "deadline") =
              {IF call.deadline.given THEN call.deadline.v
               ELSE generateDeadline(call.now, DefaultDurationSeconds)}
        /\ Lookup(frame[1].messageWithDeadline, "deadline") = {frame[1].deadline}

\* C5: when the primary type declares deadline and the message already holds
\* deadline d, the signed message still holds d.
C5_SuppliedDeadlineKept ==
    (/\ pc \in {"await", "returned"}
     /\ DeclaresDeadline
     /\ HasOwnProperty(call.value, "deadline")) =>
        Lookup(frame[1].messageWithDeadline, "deadline") = Lookup(call.value, "deadline")

\* C6: when the primary type declares no deadline field, the signed message of
\* a returned result has no deadline key, whatever the deadline argument and
\* even when the input message carries a deadline key.
C6_NoDeadlineAdded ==
    (Returned /\ HasPrimaryType /\ ~DeclaresDeadline) =>
        ~HasOwnProperty(result[1].messageWithDeadline, "deadline")

C6_Witness ==
    /\ Returned
    /\ HasPrimaryType
    /\ ~DeclaresDeadline
    /\ HasOwnProperty(call.value, "deadline")
    /\ call.deadline.given /\ call.deadline.v # 0
    /\ ~HasOwnProperty(result[1].messageWithDeadline, "deadline")

\* C7: two calls with identical domain, types, message and the same explicit
\* deadline, 0 included, return the same messageWithDeadline, deadline and
\* signature whatever the clock reads at each.
C7_DeterministicUnderExplicitDeadline ==
    (/\ Returned
     /\ prev # <<>>
     /\ prev[1].value = call.value
     /\ call.deadline.given) =>
        /\ prev[1].pc = "returned"
        /\ prev[1].result[1].deadline = result[1].deadline
        /\ prev[1].result[1].messageWithDeadline = result[1].messageWithDeadline
        /\ prev[1].result[1].signature = result[1].signature

\* the declared names that are keys of the message, in declared order
PresentDeclared(message) ==
    SelectSeq(PrimaryFieldNames, LAMBDA n : HasOwnProperty(message, n))

\* C8: checkFieldOrder reports isOrdered exactly when the message's key
\* sequence is the declared field-name sequence; reorderedMessage holds
\* exactly the declared fields present in the message, in declared order, each
\* with the message's value, and undeclared keys are dropped.
C8_CheckFieldOrder ==
    (frame # <<>> /\ HasPrimaryType) =>
        LET orderCheck == frame[1].orderCheck
        IN  /\ orderCheck.isOrdered <=> (ObjectKeys(call.value) = PrimaryFieldNames)
            /\ ObjectKeys(orderCheck.reorderedMessage) = PresentDeclared(call.value)
            /\ \A n \in Range(PresentDeclared(call.value)) :
                  Lookup(orderCheck.reorderedMessage, n) = Lookup(call.value, n)

C8_Witness ==
    /\ frame # <<>>
    /\ types = DomainAndVoteTypes
    /\ ~frame[1].orderCheck.isOrdered
    /\ ObjectKeys(call.value) = <<"deadline", "support", "proposal">>
    /\ ObjectKeys(frame[1].orderCheck.reorderedMessage) = <<"proposal", "support">>

\* C9: in a returned result under a types object with a primary type, every key
\* of messageWithDeadline is a declared field name, and every key but deadline
\* holds the value the caller's message held for it.
C9_OnlyDeclaredFieldsSigned ==
    (Returned /\ HasPrimaryType) =>
        \A n \in Range(ObjectKeys(result[1].messageWithDeadline)) :
            /\ n \in Range(PrimaryFieldNames)
            /\ n # "deadline" =>
                  Lookup(result[1].messageWithDeadline, n) = Lookup(call.value, n)

C9_Witness ==
    /\ Returned
    /\ HasPrimaryType
    /\ HasOwnProperty(call.value, "extra")
    /\ Len(call.value) = 3
    /\ ~HasOwnProperty(result[1].messageWithDeadline, "extra")

\* C10: a call whose message lacks a declared field of the primary type other
\* than deadline returns no result.
C10_MissingFieldFails ==
    (Returned /\ HasPrimaryType) =>
        \A n \in Range(PrimaryFieldNames) :
            n # "deadline" => HasOwnProperty(call.value, n)

\* the field names of the one struct type no other type refers to
RootFieldNames ==
    LET fields == Get(types, CHOOSE n \in EthersPrimaryTypes(types) : TRUE)
    IN  [i \in 1..Len(fields) |-> fields[i].name]

\* C11: under a types object with exactly one struct type that no other type
\* refers to, directly or as an array, reconciliation and deadline injection
\* use that type's field list wherever its key stands in the types object.
C11_PrimaryTypeIsRoot ==
    (frame # <<>> /\ Cardinality(EthersPrimaryTypes(types)) = 1) =>
        /\ frame[1].orderCheck.typeOrder = RootFieldNames
        /\ ("deadline" \in Range(RootFieldNames)
               /\ ~HasOwnProperty(call.value, "deadline")) =>
              Lookup(frame[1].messageWithDeadline, "deadline") = {frame[1].deadline}

PermitCall == call.permit # <<>> /\ pc \in {"await", "returned"}

\* C12: signPermit signs, through signTypedData, the domain {name: tokenName,
\* version: tokenVersion or '1', chainId, verifyingContract} and the type
\* Permit [owner, spender, value, nonce, deadline]; owner is the supplied owner
\* when given and the held key's address otherwise; spender, value and nonce
\* are the supplied ones.
C12_SignPermit ==
    PermitCall =>
        LET p == call.permit[1]
            f == frame[1]
        IN  /\ f.domain = [name |-> p.tokenName,
                           version |-> IF p.tokenVersion = <<>> THEN "1"
                                       ELSE p.tokenVersion[1],
                           chainId |-> p.chainId,
                           verifyingContract |-> p.verifyingContract.address]
            /\ f.types = PermitTypes
            /\ ObjectKeys(f.messageWithDeadline) =
                  <<"owner", "spender", "value", "nonce", "deadline">>
            /\ Get(f.messageWithDeadline, "owner") =
                  IF p.owner = <<>> THEN AddressOf(wallet) ELSE p.owner[1].address
            /\ Get(f.messageWithDeadline, "spender") = p.spender.address
            /\ Get(f.messageWithDeadline, "value") = p.value
            /\ Get(f.messageWithDeadline, "nonce") = p.nonce
            /\ f = SignTypedDataFrame(wallet, f.domain, f.types, call.value,
                                      call.deadline, now)
            /\ Returned => result = ResumeResult(wallet, f.domain, f.types, f)

C12_Witness ==
    /\ PermitCall
    /\ Returned
    /\ call.permit[1].owner # <<>>
    /\ call.permit[1].tokenVersion = <<>>
    /\ call.permit[1].spender.form = "lower"
    /\ wallet = "keyB"
    /\ Get(result[1].messageWithDeadline, "owner") = OwnerAddress
    /\ result[1].signer = AddressOf("keyB")

\* what a call returns when it runs alone with the same arguments and clock
\* reading: <<result>>, or <<>> when it throws
SoloOutcome(key, c) ==
    IF c.permit = <<>>
    THEN LET f == SignTypedDataFrame(key, domain, types, c.value, c.deadline, c.now)
         IN  IF f.signature = <<>> THEN <<>> ELSE ResumeResult(key, domain, types, f)
    ELSE LET dom == PermitDomain(c.permit[1])
             message == PermitMessage(key, c.permit[1], c.now)
         IN  IF dom = <<>> \/ message = <<>> THEN <<>>
             ELSE LET f == SignTypedDataFrame(key, dom[1], PermitTypes, message[1],
                                              PermitDeadlineArg(message[1]), c.now)
                  IN  IF f.signature = <<>> THEN <<>>
                      ELSE ResumeResult(key, dom[1], PermitTypes, f)

\* C13: when two signTypedData or signPermit calls on one instance overlap,
\* whichever resumes first and even when they share the message object, each
\* returns (or throws) what it would alone with the same inputs and clock
\* reading.
C13_ConcurrentCallsIndependent ==
    other.pc # "idle" =>
        /\ pc = "returned" => result = SoloOutcome(wallet, call)
        /\ pc = "thrown" => SoloOutcome(wallet, call) = <<>>
        /\ other.pc = "returned" => other.result = SoloOutcome(wallet, other.call)
        /\ other.pc = "thrown" => SoloOutcome(wallet, other.call) = <<>>

C13_Witness ==
    /\ pc = "returned"
    /\ other.pc = "returned"
    /\ other.call.value = call.value
    /\ other.call.now # call.now
    /\ other.result[1].signature # result[1].signature

\* C14: no generateDeadline, checkFieldOrder, signTypedData or signPermit call
\* changes the held key, and the signer of every result is the address of the
\* key the instance was constructed with.
C14_WalletNeverChanges ==
    [][/\ wallet' = wallet
       /\ pc' = "returned" => result'[1].signer = AddressOf(wallet)]_vars

C14_Witness ==
    /\ Returned
    /\ now > 0
    /\ call.permit # <<>>
    /\ call.permit[1].owner # <<>>
    /\ wallet = "keyA"
    /\ result[1].signer = AddressOf("keyA")
    /\ Get(result[1].messageWithDeadline, "owner") # result[1].signer

ScriptDone == script.pc = "done"

\* C15: in each manual computation the final digest is the hash of exactly 66
\* bytes: 0x19, 0x01, the 32-byte domain separator, the 32-byte struct hash.
C15_DigestPreimage ==
    ScriptDone =>
        /\ ByteLength(script.digestPreimage) = 66
        /\ Len(script.digestPreimage) = 3
        /\ script.digestPreimage[1].v = <<25, 1>>
        /\ script.digestPreimage[1].width = 2
        /\ script.digestPreimage[2].v = keccak256(script.domainPreimage)
        /\ script.digestPreimage[2].width = 32
        /\ script.digestPreimage[3].v = keccak256(script.structPreimage)
        /\ script.digestPreimage[3].width = 32
        /\ script.digest = keccak256(script.digestPreimage)

C15_Witness ==
    /\ script.name = "recoverAddressTest"
    /\ ScriptDone
    /\ ByteLength(script.digestPreimage) = 66

\* C16: the domain separator preimage is five 32-byte slots (160 bytes), the
\* struct hash preimage is the type hash slot and one 32-byte slot per declared
\* field in declared order (13 slots for Order); address, uint32, bool and
\* bytes1 values fill a whole slot.
C16_FixedWidthSlots ==
    ScriptDone =>
        /\ Len(script.domainPreimage) = 5
        /\ ByteLength(script.domainPreimage) = 160
        /\ Len(script.structPreimage) = 1 + Len(Get(script.types, "Order"))
        /\ \A i \in 1..Len(script.structPreimage) : script.structPreimage[i].width = 32

\* C17: the Order type string each script hashes is 'Order(' + the 'type name'
\* pairs of the script's own types.Order in declared order + ')'.
C17_TypeStringMatchesTypes ==
    ScriptDone =>
        script.orderTypeString = EncodeType("Order", Get(script.types, "Order"))

\* C18: signPermit reads the clock at most once: the deadline of the signed
\* Permit message and the returned deadline are equal, also when the clock
\* advances between building the message and signTypedData, and they are the
\* supplied deadline when one is given.
C18_PermitDeadline ==
    PermitCall =>
        /\ Lookup(frame[1].messageWithDeadline, "deadline") = {frame[1].deadline}
        /\ Returned => result[1].deadline = Get(result[1].messageWithDeadline, "deadline")
        /\ call.permit[1].deadline.given => frame[1].deadline = call.permit[1].deadline.v

RECURSIVE IsSubsequence(_, _)
IsSubsequence(sub, seq) ==
    IF sub = <<>> THEN TRUE
    ELSE IF seq = <<>> THEN FALSE
    ELSE IF Head(sub) = Head(seq) THEN IsSubsequence(Tail(sub), Tail(seq))
    ELSE IsSubsequence(sub, Tail(seq))

\* C21: in every returned result under a types object with a primary type, the
\* key sequence of messageWithDeadline is a subsequence of the declared
\* field-name sequence, also when deadline is declared before another field
\* and is injected because the message lacked it.
C21_SignedKeysFollowDeclaredOrder ==
    (Returned /\ HasPrimaryType) =>
        IsSubsequence(ObjectKeys(result[1].messageWithDeadline), PrimaryFieldNames)

\* the run of main has reached the signing call
CliSigned == cli.pc # "idle" /\ cli.frame # <<>>

\* the primary type the run signs declares a deadline field
CliDeclaresDeadline ==
    \E f \in Range(cli.frame[1].types[1].v) : f.name = "deadline"

\* C22: run with --deadline-duration D and without --deadline, main signs and
\* prints the deadline floor(now / 1000) + D, in --permit mode as in
\* --custom-json mode; a given --deadline is the deadline in both modes.
C22_DeadlineDuration ==
    CliSigned =>
        LET o == cli.args
            f == cli.frame[1]
            expected == IF o.deadline # <<>> THEN ParseInt(o.deadline[1])[1]
                        ELSE generateDeadline(cli.now, ParseInt(o.deadline_duration[1])[1])
        IN  (o.deadline # <<>> \/ o.deadline_duration # <<>>) =>
                /\ f.deadline = expected
                /\ CliDeclaresDeadline =>
                      Lookup(f.messageWithDeadline, "deadline") = {expected}
                /\ cli.printed # <<>> => cli.printed[1].deadline = expected

\* C23: for every integer N given as --chain-id, 0 included, the domain main
\* signs with has chainId N; 1 is used only when --chain-id is absent.
C23_ChainIdPassedThrough ==
    CliSigned =>
        cli.frame[1].domain.chainId =
            IF cli.args.chain_id = <<>> THEN 1 ELSE ParseInt(cli.args.chain_id[1])[1]

\* C24: main exits with status 1, having signed and printed nothing, when the
\* private key does not start with 0x, when neither --permit nor
\* --custom-json is given, and in --permit mode when --verifying-contract,
\* --spender, --value or --nonce is missing.
C24_ValidationPrecedesSigning ==
    (/\ cli.pc # "idle"
     /\ \/ ~cli.args.prefixed
        \/ ~cli.args.permit /\ cli.args.custom_json = <<>>
        \/ cli.args.permit /\ PermitOptionsMissingWithNonce(cli.args)) =>
        /\ cli.exit = <<1>>
        /\ cli.frame = <<>>
        /\ cli.printed = <<>>

====
